---- MODULE Spec2Model ----
(***************************************************************************)
(* OnRobot RG2/RG6 gripper driver (onrobot.py, class RG) and the          *)
(* module-level demo functions (demo.py), over a Modbus transport handle. *)
(*                                                                         *)
(* The transport (pymodbus ModbusTcpClient) is the external collaborator: *)
(* a transaction is a record [fn, address, values, unit]; a write changes *)
(* the device's holding registers, a read returns one of them.            *)
(***************************************************************************)
EXTENDS Integers, Sequences, FiniteSets, TLC

VARIABLES
    regs,      \* the gripper's holding registers, address -> 16-bit value
    obj,       \* the RG instance's attributes (its __dict__), name -> value
    connects,  \* number of client.connect() calls made on the RG's client
    closes,    \* number of client.close() calls made on the RG's client
    last,      \* the most recent call: [op, gripper, args, txs, ret, exc]
    prev,      \* the call before it
    pc,        \* run_demo's position
    wire,      \* everything run_demo did on its client, in order
    raw,       \* a raw register value handed to a decode function
    ret        \* what the decode function returned for it

vars == <<regs, obj, connects, closes, last, prev, pc, wire, raw, ret>>

(***************************************************************************)
(* Bounds of the model.                                                    *)
(***************************************************************************)
\* open_connection()/close_connection() are public and may be called again
\* and again; the counters are capped here.
MaxConnects == 1

(***************************************************************************)
(* Register map and values.                                                *)
(***************************************************************************)
UNIT == 65
DEFAULT_FORCE == 400
GRIP_W_OFFSET == 16

Word == 0..65535

CmdAddrs == {0, 1, 2}
Addrs == CmdAddrs \cup {268, 275}

\* Arguments a caller passes in the model.
ForceArgs == {200}
WidthArgs == {500}
Commands == {1, 8, 16}
Grippers == {"rg2", "rg6", "2fg7"}
\* Values the device puts in its status register in the stateful models.
StatusVals == {0, 1, 3}
\* Values it puts in its width-with-offset register while it moves.
WidthReadings == {0, 800, 1600}

(***************************************************************************)
(* Python's format(n, '016b'), negative indexing and int() of a digit.     *)
(***************************************************************************)
RECURSIVE bin(_)
bin(n) == IF n < 2 THEN << (IF n = 0 THEN "0" ELSE "1") >>
          ELSE Append(bin(n \div 2), IF n % 2 = 0 THEN "0" ELSE "1")

format016b(n) ==
    LET b == bin(n)
        pad == 16 - Len(b)
    IN  IF pad <= 0 THEN b
        ELSE [i \in 1..16 |-> IF i <= pad THEN "0" ELSE b[i - pad]]

\* s[-k]
NegIndex(s, k) == s[Len(s) - k + 1]

int(c) == IF c = "1" THEN 1 ELSE 0

(***************************************************************************)
(* RG.get_status: seven independent ifs on status[-1] .. status[-7].       *)
(* status_list[i] of the source is position i + 1 here.                    *)
(***************************************************************************)
StatusIf(status, k, status_list) ==
    IF int(NegIndex(status, k)) # 0
    THEN [status_list EXCEPT ![k] = 1]
    ELSE status_list

\* The same with the elif chain of demo.get_status.
RG_status_list_elif(reg) ==
    LET status == format016b(reg)
        l0 == [i \in 1..7 |-> 0]
    IN  IF int(NegIndex(status, 1)) # 0 THEN [l0 EXCEPT ![1] = 1]
        ELSE IF int(NegIndex(status, 2)) # 0 THEN [l0 EXCEPT ![2] = 1]
        ELSE IF int(NegIndex(status, 3)) # 0 THEN [l0 EXCEPT ![3] = 1]
        ELSE IF int(NegIndex(status, 4)) # 0 THEN [l0 EXCEPT ![4] = 1]
        ELSE IF int(NegIndex(status, 5)) # 0 THEN [l0 EXCEPT ![5] = 1]
        ELSE IF int(NegIndex(status, 6)) # 0 THEN [l0 EXCEPT ![6] = 1]
        ELSE IF int(NegIndex(status, 7)) # 0 THEN [l0 EXCEPT ![7] = 1]
        ELSE l0

RG_status_list(reg) ==
    LET status == format016b(reg)
        l0 == [i \in 1..7 |-> 0]
        l1 == StatusIf(status, 1, l0)
        l2 == StatusIf(status, 2, l1)
        l3 == StatusIf(status, 3, l2)
        l4 == StatusIf(status, 4, l3)
        l5 == StatusIf(status, 5, l4)
        l6 == StatusIf(status, 6, l5)
        l7 == StatusIf(status, 7, l6)
    IN  l7

(***************************************************************************)
(* demo.get_status: if / elif chain, at most one flag is ever set.         *)
(***************************************************************************)
status_list(reg) ==
    LET status == format016b(reg)
        l0 == [i \in 1..7 |-> 0]
    IN  IF int(NegIndex(status, 1)) # 0 THEN [l0 EXCEPT ![1] = 1]
        ELSE IF int(NegIndex(status, 2)) # 0 THEN [l0 EXCEPT ![2] = 1]
        ELSE IF int(NegIndex(status, 3)) # 0 THEN [l0 EXCEPT ![3] = 1]
        ELSE IF int(NegIndex(status, 4)) # 0 THEN [l0 EXCEPT ![4] = 1]
        ELSE IF int(NegIndex(status, 5)) # 0 THEN [l0 EXCEPT ![5] = 1]
        ELSE IF int(NegIndex(status, 6)) # 0 THEN [l0 EXCEPT ![6] = 1]
        ELSE IF int(NegIndex(status, 7)) # 0 THEN [l0 EXCEPT ![7] = 1]
        ELSE l0

(***************************************************************************)
(* get_fingertip_offset (both files): registers[0] / 10.0.  The quotient   *)
(* is kept exact, as numerator over denominator.                           *)
(***************************************************************************)
RG_offset_mm(reg) == [num |-> reg, den |-> 10]

offset_mm(reg) == [num |-> reg, den |-> 10]

(***************************************************************************)
(* The transport: one Modbus transaction and its effect on the registers.  *)
(***************************************************************************)
\* client.write_register(address=, value=, unit=65)
write_register(address, value) ==
    [fn |-> "write_register", address |-> address,
     values |-> <<value>>, unit |-> UNIT]

\* client.write_registers(address=, values=, unit=65)
write_registers(address, values) ==
    [fn |-> "write_registers", address |-> address,
     values |-> values, unit |-> UNIT]

\* client.read_holding_registers(address=, count=1, unit=65) on registers r;
\* values is result.registers.
read_holding_registers(r, address) ==
    [fn |-> "read_holding_registers", address |-> address,
     values |-> <<r[address]>>, unit |-> UNIT]

IsWrite(tx) == tx.fn \in {"write_register", "write_registers"}

\* The registers after one transaction.
Apply(r, tx) ==
    IF IsWrite(tx)
    THEN [a \in DOMAIN r |->
            IF a >= tx.address /\ a < tx.address + Len(tx.values)
            THEN tx.values[a - tx.address + 1]
            ELSE r[a]]
    ELSE r

RECURSIVE Exec(_, _)
Exec(r, txs) == IF txs = <<>> THEN r ELSE Exec(Apply(r, Head(txs)), Tail(txs))

\* A call's record: the positional arguments passed (the constructor's
\* variant apart, in gripper), the transactions it issued, the list it
\* returned (None: the empty list) and the exception it raised, if any.
None == <<>>
NoCall == [op |-> "", gripper |-> "", args |-> <<>>, txs |-> <<>>,
           ret |-> None, exc |-> ""]

Record(op, gripper, args, txs, r, exc) ==
    /\ regs' = Exec(regs, txs)
    /\ prev' = last
    /\ last' = [op |-> op, gripper |-> gripper, args |-> args, txs |-> txs,
                ret |-> r, exc |-> exc]

\* A call that ran its transactions txs and returned r (or raised exc).
Call(op, args, txs, r, exc) == Record(op, "", args, txs, r, exc)

HasAttr(o, a) == a \in DOMAIN o
Constructed == HasAttr(obj, "client")

(***************************************************************************)
(* class RG                                                                *)
(***************************************************************************)
\* A faulty RG.__init__: the profile is set and the connection opened
\* before the variant is checked.
RG_init_connect_first(gripper) ==
    /\ ~Constructed
    /\ obj' = ("client" :> "ModbusClient") @@ ("gripper" :> gripper)
              @@ ("max_width" :> IF gripper = "rg2" THEN 1100 ELSE 1600)
              @@ ("max_force" :> IF gripper = "rg2" THEN 400 ELSE 1200)
    /\ connects' = connects + 1
    /\ Record("RG.__init__", gripper, <<>>, <<>>, None, "")
    /\ UNCHANGED <<closes, pc, wire, raw, ret>>

RG_init(gripper) ==
    /\ ~Constructed
    /\ LET o1 == ("client" :> "ModbusClient")
       IN  IF gripper \notin {"rg2", "rg6"}
           THEN /\ obj' = o1
                /\ connects' = connects
           ELSE /\ obj' = o1 @@ ("gripper" :> gripper)
                          @@ (IF gripper = "rg2"
                              THEN ("max_width" :> 1100) @@ ("max_force" :> 400)
                              ELSE ("max_width" :> 1600) @@ ("max_force" :> 1200))
                \* self.open_connection()
                /\ connects' = connects + 1
    /\ Record("RG.__init__", gripper, <<>>, <<>>, None, "")
    /\ UNCHANGED <<closes, pc, wire, raw, ret>>

RG_open_connection ==
    /\ Constructed
    /\ connects < MaxConnects
    /\ connects' = connects + 1
    /\ Call("RG.open_connection", <<>>, <<>>, None, "")
    /\ UNCHANGED <<obj, closes, pc, wire, raw, ret>>

RG_close_connection ==
    /\ Constructed
    /\ closes < MaxConnects
    /\ closes' = closes + 1
    /\ Call("RG.close_connection", <<>>, <<>>, None, "")
    /\ UNCHANGED <<obj, connects, pc, wire, raw, ret>>

\* A faulty RG.get_status: the read is followed by a write that clears the
\* control register.
RG_get_status_clears ==
    /\ Constructed
    /\ LET result == read_holding_registers(regs, 268)
       IN  Call("RG.get_status", <<>>, <<result, write_register(2, 0)>>,
                RG_status_list(result.values[1]), "")
    /\ UNCHANGED <<obj, connects, closes, pc, wire, raw, ret>>

RG_get_status ==
    /\ Constructed
    /\ LET result == read_holding_registers(regs, 268)
       IN  Call("RG.get_status", <<>>, <<result>>,
                RG_status_list(result.values[1]), "")
    /\ UNCHANGED <<obj, connects, closes, pc, wire, raw, ret>>

\* A faulty RG.set_control_mode: the command goes to the width register.
RG_set_control_mode_addr1(command) ==
    /\ Constructed
    /\ Call("RG.set_control_mode", <<command>>,
            <<write_register(1, command)>>, None, "")
    /\ UNCHANGED <<obj, connects, closes, pc, wire, raw, ret>>

RG_set_control_mode(command) ==
    /\ Constructed
    /\ Call("RG.set_control_mode", <<command>>,
            <<write_register(2, command)>>, None, "")
    /\ UNCHANGED <<obj, connects, closes, pc, wire, raw, ret>>

RG_set_target_force(force_val) ==
    /\ Constructed
    /\ Call("RG.set_target_force", <<force_val>>,
            <<write_register(0, force_val)>>, None, "")
    /\ UNCHANGED <<obj, connects, closes, pc, wire, raw, ret>>

RG_set_target_width(width_val) ==
    /\ Constructed
    /\ Call("RG.set_target_width", <<width_val>>,
            <<write_register(1, width_val)>>, None, "")
    /\ UNCHANGED <<obj, connects, closes, pc, wire, raw, ret>>

\* force_val=400 when the caller passes no force: args holds the positional
\* arguments actually passed, the force being argument number k.
force_of(args, k) == IF Len(args) >= k THEN args[k] ELSE DEFAULT_FORCE

RG_close_gripper(args) ==
    /\ Constructed
    /\ LET params == <<force_of(args, 1), 0, GRIP_W_OFFSET>>
       IN  Call("RG.close_gripper", args,
                <<write_registers(0, params)>>, None, "")
    /\ UNCHANGED <<obj, connects, closes, pc, wire, raw, ret>>

\* A faulty RG.open_gripper: the width written is the rg2 maximum whatever
\* the profile.
RG_open_gripper_rg2_width(args) ==
    /\ Constructed
    /\ LET params == <<force_of(args, 1), 1100, GRIP_W_OFFSET>>
       IN  Call("RG.open_gripper", args,
                <<write_registers(0, params)>>, None, "")
    /\ UNCHANGED <<obj, connects, closes, pc, wire, raw, ret>>

\* self.max_width is read while params is built: on an object whose
\* constructor returned early the attribute is missing and AttributeError is
\* raised before any transaction.
RG_open_gripper(args) ==
    /\ Constructed
    /\ IF HasAttr(obj, "max_width")
       THEN LET params == <<force_of(args, 1), obj["max_width"], GRIP_W_OFFSET>>
            IN  Call("RG.open_gripper", args,
                     <<write_registers(0, params)>>, None, "")
       ELSE Call("RG.open_gripper", args, <<>>, None, "AttributeError")
    /\ UNCHANGED <<obj, connects, closes, pc, wire, raw, ret>>

\* args = <<width_val>> or <<width_val, force_val>>
RG_move_gripper_txs(args) ==
    LET params == <<force_of(args, 2), args[1], GRIP_W_OFFSET>>
    IN  <<write_registers(0, params)>>

RG_move_gripper(args) ==
    /\ Constructed
    /\ Call("RG.move_gripper", args, RG_move_gripper_txs(args), None, "")
    /\ UNCHANGED <<obj, connects, closes, pc, wire, raw, ret>>

(***************************************************************************)
(* demo.py, module-level functions on a client                             *)
(***************************************************************************)
easy_control_txs(command) == <<write_register(2, command)>>

set_target_force_txs(force_val) ==
    <<write_register(0, force_val)>> \o easy_control_txs(16)

set_target_width_txs(width_val) ==
    <<write_register(1, width_val)>> \o easy_control_txs(16)

get_status ==
    /\ LET result == read_holding_registers(regs, 268)
       IN  Call("get_status", <<>>, <<result>>,
                status_list(result.values[1]), "")
    /\ UNCHANGED <<obj, connects, closes, pc, wire, raw, ret>>

easy_control(command) ==
    /\ Call("easy_control", <<command>>, easy_control_txs(command), None, "")
    /\ UNCHANGED <<obj, connects, closes, pc, wire, raw, ret>>

set_target_force(force_val) ==
    /\ Call("set_target_force", <<force_val>>,
            set_target_force_txs(force_val), None, "")
    /\ UNCHANGED <<obj, connects, closes, pc, wire, raw, ret>>

set_target_width(width_val) ==
    /\ Call("set_target_width", <<width_val>>,
            set_target_width_txs(width_val), None, "")
    /\ UNCHANGED <<obj, connects, closes, pc, wire, raw, ret>>

(***************************************************************************)
(* The gripper itself: its status register changes on its own.             *)
(***************************************************************************)
DeviceStep ==
    /\ \E v \in StatusVals : v # regs[268] /\ regs' = [regs EXCEPT ![268] = v]
    /\ UNCHANGED <<obj, connects, closes, last, prev, pc, wire, raw, ret>>

\* Its fingers move: the width-with-offset reading changes.
DeviceMove ==
    /\ \E w \in WidthReadings :
         w # regs[275] /\ regs' = [regs EXCEPT ![275] = w]
    /\ UNCHANGED <<obj, connects, closes, last, prev, pc, wire, raw, ret>>

(***************************************************************************)
(* Spec: a caller using the RG class and the demo functions in any order.  *)
(***************************************************************************)
Init ==
    /\ regs = [a \in Addrs |-> 0]
    /\ obj = [a \in {} |-> 0]
    /\ connects = 0
    /\ closes = 0
    /\ last = NoCall
    /\ prev = NoCall
    /\ pc = "idle"
    /\ wire = <<>>
    /\ raw = 0
    /\ ret = [fn |-> "", val |-> <<>>]

ForceArgLists == {<<>>} \cup {<<f>> : f \in ForceArgs}
MoveArgLists == {<<w>> : w \in WidthArgs}
                \cup {<<w, f>> : w \in WidthArgs, f \in ForceArgs}

Next ==
    \/ \E g \in Grippers : RG_init(g)
    \/ RG_open_connection
    \/ RG_close_connection
    \/ RG_get_status
    \/ \E c \in Commands : RG_set_control_mode(c)
    \/ \E f \in ForceArgs : RG_set_target_force(f)
    \/ \E w \in WidthArgs : RG_set_target_width(w)
    \/ \E a \in ForceArgLists : RG_close_gripper(a)
    \/ \E a \in ForceArgLists : RG_open_gripper(a)
    \/ \E a \in MoveArgLists : RG_move_gripper(a)
    \/ get_status
    \/ \E c \in Commands : easy_control(c)
    \/ \E f \in ForceArgs : set_target_force(f)
    \/ \E w \in WidthArgs : set_target_width(w)
    \/ DeviceStep

Spec == Init /\ [][Next]_vars

(***************************************************************************)
(* SpecDecode: the decode functions applied to every 16-bit register       *)
(* value.                                                                  *)
(***************************************************************************)
InitDecode ==
    /\ raw \in Word
    /\ ret = [fn |-> "", val |-> <<>>]
    /\ regs = [a \in Addrs |-> 0]
    /\ obj = [a \in {} |-> 0]
    /\ connects = 0
    /\ closes = 0
    /\ last = NoCall
    /\ prev = NoCall
    /\ pc = "idle"
    /\ wire = <<>>

Returns(fn, val) ==
    /\ ret' = [fn |-> fn, val |-> val]
    /\ UNCHANGED <<regs, obj, connects, closes, last, prev, pc, wire, raw>>

DecodeRGStatus == Returns("RG.get_status", RG_status_list(raw))
DecodeStatus == Returns("get_status", status_list(raw))
DecodeRGOffset == Returns("RG.get_fingertip_offset", RG_offset_mm(raw))
DecodeOffset == Returns("get_fingertip_offset", offset_mm(raw))

NextDecode ==
    \/ DecodeRGStatus
    \/ DecodeStatus
    \/ DecodeRGOffset
    \/ DecodeOffset

SpecDecode == InitDecode /\ [][NextDecode]_vars

(***************************************************************************)
(* SpecDemo: demo.run_demo, one step per statement, beside the gripper.    *)
(* A transport call may raise; nothing in run_demo catches it.             *)
(***************************************************************************)
\* What the client did: a transaction and whether it returned.
Ev(tx, ok) ==
    [fn |-> tx.fn, address |-> tx.address,
     values |-> IF ok \/ IsWrite(tx) THEN tx.values ELSE <<>>,
     unit |-> tx.unit, ok |-> ok]

\* How a call's transactions end: all return ("ok", 0), or the k-th raises,
\* the request either lost on the way or carried out with its reply lost.
Outcomes(txs) ==
    {<<"ok", 0>>} \cup {<<o, k>> : o \in {"lost", "noreply"}, k \in 1..Len(txs)}

Done(txs, out) ==
    IF out[1] = "ok" THEN txs ELSE SubSeq(txs, 1, out[2])

Effective(txs, out) ==
    IF out[1] = "lost" THEN SubSeq(txs, 1, out[2] - 1) ELSE Done(txs, out)

\* run_demo calls a function issuing txs; on success it goes on at `next`.
Issue(txs, out, next) ==
    /\ regs' = Exec(regs, Effective(txs, out))
    /\ wire' = wire \o [i \in 1..Len(Done(txs, out)) |->
                          Ev(txs[i], out[1] = "ok" \/ i < out[2])]
    /\ pc' = IF out[1] = "ok" THEN next ELSE "raised"
    /\ UNCHANGED <<obj, connects, closes, last, prev, raw, ret>>

InitDemo ==
    /\ pc = "start"
    /\ wire = <<>>
    /\ regs \in {[a \in Addrs |-> IF a = 268 THEN v ELSE 0] : v \in StatusVals}
    /\ obj = [a \in {} |-> 0]
    /\ connects = 0
    /\ closes = 0
    /\ last = NoCall
    /\ prev = NoCall
    /\ raw = 0
    /\ ret = [fn |-> "", val |-> <<>>]

\* client = ModbusClient(...); client.connect()
run_demo_connect ==
    /\ pc = "start"
    /\ wire' = Append(wire, [fn |-> "connect"])
    /\ pc' = "status"
    /\ UNCHANGED <<regs, obj, connects, closes, last, prev, raw, ret>>

\* if get_status(client)[0] == 0:
run_demo_get_status ==
    /\ pc = "status"
    /\ LET result == read_holding_registers(regs, 268)
       IN  \E out \in Outcomes(<<result>>) :
             Issue(<<result>>, out,
                   IF status_list(result.values[1])[1] = 0
                   THEN "width" ELSE "close")

\* print(... get_width_with_offset(client) ...)
run_demo_get_width_with_offset ==
    /\ pc = "width"
    /\ LET result == read_holding_registers(regs, 275)
       IN  \E out \in Outcomes(<<result>>) : Issue(<<result>>, out, "open")

\* set_target_width(client, 1600)
run_demo_open ==
    /\ pc = "open"
    /\ \E out \in Outcomes(set_target_width_txs(1600)) :
         Issue(set_target_width_txs(1600), out, "sleep")

\* time.sleep(1.0)
run_demo_sleep ==
    /\ pc = "sleep"
    /\ pc' = "shut"
    /\ UNCHANGED <<regs, wire, obj, connects, closes, last, prev, raw, ret>>

\* set_target_width(client, 0)
run_demo_shut ==
    /\ pc = "shut"
    /\ \E out \in Outcomes(set_target_width_txs(0)) :
         Issue(set_target_width_txs(0), out, "close")

\* client.close()
run_demo_close ==
    /\ pc = "close"
    /\ wire' = Append(wire, [fn |-> "close"])
    /\ pc' = "done"
    /\ UNCHANGED <<regs, obj, connects, closes, last, prev, raw, ret>>

Terminated == pc \in {"done", "raised"}

NextDemo ==
    \/ run_demo_connect
    \/ run_demo_get_status
    \/ run_demo_get_width_with_offset
    \/ run_demo_open
    \/ run_demo_sleep
    \/ run_demo_shut
    \/ run_demo_close
    \/ (~Terminated /\ DeviceStep)
    \/ (~Terminated /\ DeviceMove)

SpecDemo == InitDemo /\ [][NextDemo]_vars

(***************************************************************************)
(* Properties                                                              *)
(***************************************************************************)
\* Bit i of v, by arithmetic.
Bit(v, i) == (v \div (2 ^ i)) % 2

\* v read as a signed 16-bit two's-complement number.
Signed16(v) == IF v < 32768 THEN v ELSE v - 65536

CmdRegs(r) == <<r[0], r[1], r[2]>>

\* C1: for every 16-bit status value, RG.get_status returns exactly 7 flags,
\* flag i being 1 exactly when bit i of the value is 1 and 0 otherwise, each
\* independently of the others; Bit(raw, i) for i <= 6 does not depend on
\* bits 7..15, so those bits have no effect on the list.
C1_StatusFlagsAreBits ==
    ret.fn = "RG.get_status" =>
        /\ Len(ret.val) = 7
        /\ \A i \in 0..6 : ret.val[i + 1] = Bit(raw, i)
        /\ ret.val = RG_status_list(raw % 128)

\* C1 witness: busy and safety-error set together with a reserved bit.
C1_Witness ==
    /\ ret.fn = "RG.get_status"
    /\ raw = 321
    /\ ret.val = <<1, 0, 0, 0, 0, 0, 1>>

\* C2: get_fingertip_offset (RG method and demo function) returns the raw
\* value of register 258 read as signed 16-bit two's complement, divided by
\* 10: ten times the result is the signed value (-32768 for raw 0x8000).
C2_OffsetIsSigned ==
    ret.fn \in {"RG.get_fingertip_offset", "get_fingertip_offset"} =>
        ret.val.num * 10 = Signed16(raw) * ret.val.den

\* C9: for every 16-bit status value, demo.get_status returns the same
\* 7-flag list as RG.get_status, flag i being bit i of the value.
C9_DemoStatusSameAsRG ==
    ret.fn = "get_status" =>
        /\ ret.val = RG_status_list(raw)
        /\ \A i \in 0..6 : ret.val[i + 1] = Bit(raw, i)

\* The profile table: max_width and max_force by variant.
ProfileWidth(g) == IF g = "rg2" THEN 1100 ELSE 1600
ProfileForce(g) == IF g = "rg2" THEN 400 ELSE 1200

\* The one compound write [force, width, 16] to unit 65 at address 0.
CompoundWrite(force, width) ==
    [fn |-> "write_registers", address |-> 0,
     values |-> <<force, width, 16>>, unit |-> 65]

\* C3: open_gripper, close_gripper and move_gripper each issue exactly one
\* multi-register write to unit 65 at address 0 with [force, width, 16]:
\* width is the profile's max_width (open), 0 (close) or the given width
\* (move); force is 400 when not given.  Registers 0..2 hold those values
\* afterwards.
C3_MotionIsOneCompoundWrite ==
    /\ (last.op = "RG.open_gripper" /\ HasAttr(obj, "gripper")) =>
          LET f == IF last.args = <<>> THEN 400 ELSE last.args[1]
              w == ProfileWidth(obj["gripper"])
          IN  /\ last.txs = <<CompoundWrite(f, w)>>
              /\ CmdRegs(regs) = <<f, w, 16>>
    /\ last.op = "RG.close_gripper" =>
          LET f == IF last.args = <<>> THEN 400 ELSE last.args[1]
          IN  /\ last.txs = <<CompoundWrite(f, 0)>>
              /\ CmdRegs(regs) = <<f, 0, 16>>
    /\ last.op = "RG.move_gripper" =>
          LET f == IF Len(last.args) = 1 THEN 400 ELSE last.args[2]
              w == last.args[1]
          IN  /\ last.txs = <<CompoundWrite(f, w)>>
              /\ CmdRegs(regs) = <<f, w, 16>>

\* C3 witness: open_gripper() on an rg6 instance left [400, 1600, 16].
C3_Witness ==
    /\ last.op = "RG.open_gripper"
    /\ last.args = <<>>
    /\ HasAttr(obj, "gripper")
    /\ obj["gripper"] = "rg6"
    /\ CmdRegs(regs) = <<400, 1600, 16>>

\* set_target_width(w) of the RG class followed immediately by
\* set_control_mode(16).
PairDone ==
    /\ prev.op = "RG.set_target_width"
    /\ last.op = "RG.set_control_mode"
    /\ last.args = <<16>>

\* C4 as stated: the pair is observed as a single compound write taking
\* registers 0..2 to [f, w, 16] in one transaction, f being the content of
\* register 0.
C4_PairIsOneCompoundWrite ==
    PairDone =>
        prev.txs \o last.txs = <<CompoundWrite(regs[0], prev.args[1])>>

\* C4 amended: the pair leaves registers 0..2 with the contents [f, w, 16]
\* that move_gripper(w, f) leaves, f being the content of register 0, but
\* as two single-register writes, to address 1 and then to address 2, so
\* that the width is written before the control register.
C4_PairEndsAsMoveGripper ==
    PairDone =>
        LET w == prev.args[1]
            f == regs[0]
        IN  /\ regs = Exec(regs, RG_move_gripper_txs(<<w, f>>))
            /\ CmdRegs(regs) = <<f, w, 16>>
            /\ prev.txs \o last.txs =
                 << [fn |-> "write_register", address |-> 1,
                     values |-> <<w>>, unit |-> 65],
                    [fn |-> "write_register", address |-> 2,
                     values |-> <<16>>, unit |-> 65] >>

\* C4 witness: the pair ran with register 0 holding a force written before.
C4_Witness ==
    /\ PairDone
    /\ prev.args = <<500>>
    /\ CmdRegs(regs) = <<200, 500, 16>>

\* A transaction that sets control register 2 to 16.
MotionStart(e) ==
    /\ e.fn \in {"write_register", "write_registers"}
    /\ e.address <= 2
    /\ 2 < e.address + Len(e.values)
    /\ e.values[2 - e.address + 1] = 16

\* A get_status poll that returned with the busy flag 0.
IdlePoll(e) ==
    /\ e.fn = "read_holding_registers"
    /\ e.address = 268
    /\ e.ok
    /\ Bit(e.values[1], 0) = 0

\* C5: in run_demo every motion-starting command is issued only after a
\* get_status poll, made after the previous motion-starting command, has
\* returned busy = 0.
C5_PollBeforeEveryMotion ==
    \A j \in 1..Len(wire) :
        MotionStart(wire[j]) =>
            \E k \in 1..(j - 1) :
                /\ IdlePoll(wire[k])
                /\ \A m \in (k + 1)..(j - 1) : ~MotionStart(wire[m])

\* The single-register write a setter is meant to be.
SingleWrite(address, value) ==
    [fn |-> "write_register", address |-> address,
     values |-> <<value>>, unit |-> 65]

\* C6: every set_target_force, set_target_width and set_control_mode /
\* easy_control, of the RG class and of demo.py, issues exactly one
\* transaction: a single-register write to address 0, 1 and 2 respectively.
C6_SettersAreOneWrite ==
    /\ last.op \in {"RG.set_target_force", "set_target_force"} =>
          last.txs = <<SingleWrite(0, last.args[1])>>
    /\ last.op \in {"RG.set_target_width", "set_target_width"} =>
          last.txs = <<SingleWrite(1, last.args[1])>>
    /\ last.op \in {"RG.set_control_mode", "easy_control"} =>
          last.txs = <<SingleWrite(2, last.args[1])>>

\* C7: RG.get_status is read-only: it issues one read of register 268,
\* changes no register and no field of the interface object, and two
\* consecutive calls that read the same register value return the same
\* flags.
C7_GetStatusReadOnly ==
    /\ [](last.op = "RG.get_status" =>
            /\ Len(last.txs) = 1
            /\ last.txs[1].fn = "read_holding_registers"
            /\ last.txs[1].address = 268
            /\ Len(last.txs[1].values) = 1
            /\ \A i \in 0..6 :
                 last.ret[i + 1] = Bit(last.txs[1].values[1], i))
    /\ [](/\ prev.op = "RG.get_status"
          /\ last.op = "RG.get_status"
          /\ prev.txs[1].values = last.txs[1].values
          => prev.ret = last.ret)
    /\ [][RG_get_status =>
            UNCHANGED <<regs, obj, connects, closes>>]_vars

\* C7 witness: two consecutive get_status calls on a busy gripper that has
\* a grip detected.
C7_Witness ==
    /\ prev.op = "RG.get_status"
    /\ last.op = "RG.get_status"
    /\ regs[268] = 3
    /\ prev.ret = <<1, 1, 0, 0, 0, 0, 0>>
    /\ last.ret = <<1, 1, 0, 0, 0, 0, 0>>

\* C8: constructing RG with a variant outside {rg2, rg6} opens no connection,
\* issues no transaction and leaves gripper, max_width and max_force unset,
\* so that a later open_gripper on that object writes nothing; with rg2 or
\* rg6 the profile is (1100, 400) or (1600, 1200) and the connection is
\* opened exactly once.
C8_Construction ==
    /\ last.op = "RG.__init__" =>
          /\ last.txs = <<>>
          /\ IF last.gripper \in {"rg2", "rg6"}
             THEN /\ obj["gripper"] = last.gripper
                  /\ obj["max_width"] = ProfileWidth(last.gripper)
                  /\ obj["max_force"] = ProfileForce(last.gripper)
                  /\ connects = 1
             ELSE /\ DOMAIN obj \cap {"gripper", "max_width", "max_force"} = {}
                  /\ connects = 0
    /\ (Constructed /\ ~HasAttr(obj, "gripper")) =>
          /\ ~HasAttr(obj, "max_width")
          /\ ~HasAttr(obj, "max_force")
          /\ last.op = "RG.open_gripper" =>
                (last.txs = <<>> /\ last.exc = "AttributeError")

\* C8 witness: open_gripper was called on an object built with an unknown
\* variant, on which no connection was opened.
C8_Witness ==
    /\ Constructed
    /\ ~HasAttr(obj, "gripper")
    /\ connects = 0
    /\ prev.op = "RG.__init__"
    /\ last.op = "RG.open_gripper"

\* Occurrences of fn in run_demo's record.
Count(fn) == Cardinality({i \in 1..Len(wire) : wire[i].fn = fn})

\* C10: every execution of run_demo opens the connection exactly once and
\* closes it exactly once, after its last register transaction, on every
\* path, a failing transport call included.
C10_ClosedExactlyOnce ==
    Terminated =>
        /\ Count("connect") = 1
        /\ Count("close") = 1
        /\ wire[Len(wire)].fn = "close"

====
